---- MODULE Spec2Model ----
(***************************************************************************)
(* The campaign-planning workflow: the Step Functions state machine built  *)
(* in the notebook (Agent0Step .. Agent5Step, NotifySuccess,               *)
(* FailureNotify), the six Lambda handlers it invokes, the DynamoDB table  *)
(* keyed by (campaign_id, step), the assets bucket and the SNS topic.      *)
(*                                                                         *)
(* A state of the machine is interpreted as the Amazon States Language     *)
(* defines its fields: Parameters builds the task's event, a task's result *)
(* replaces the state data, Retry re-invokes on the listed errors up to    *)
(* MaxAttempts more times, Catch adds the error at ResultPath and moves to *)
(* Next, and a state with End: True ends the execution.                    *)
(*                                                                         *)
(* A handler's calls to its collaborators (S3, Bedrock, Kendra, DynamoDB,  *)
(* SNS) each succeed or fail; which one fails is the action's input.  The  *)
(* text a model generates is opaque and is represented by the execution    *)
(* that produced it.  The request and Item literals of agent0 are written  *)
(* with doubled braces in the handler template; they are read here as the  *)
(* single-brace literals the other five handlers use.                      *)
(***************************************************************************)
EXTENDS Integers, Sequences, FiniteSets

\* ---------------------------------------------------------------- bounds
MaxExec == 2        \* executions that may be started

\* ------------------------------------------------------ program constants
NumAgents == 6      \* for i in range(6)
MaxAttempts == 3    \* Retry[0].MaxAttempts
IntervalSeconds == 2
BackoffRate == 2

Execs == 1..MaxExec
Agents == 0..(NumAgents - 1)

\* campaign ids a caller may start an execution with
Ids == {"X", "Y"}
\* agent0: brief.get('campaign_id', 'UNKNOWN')
UNKNOWN == "UNKNOWN"
AllIds == Ids \cup {UNKNOWN}
\* an absent JSON field
NULL == ""

\* the step names the handlers write their records under
StepName(i) ==
    CASE i = 0 -> "input_extracted"
      [] i = 1 -> "business_context"
      [] i = 2 -> "campaign_plan"
      [] i = 3 -> "content_samples"
      [] i = 4 -> "channel_strategy"
      [] i = 5 -> "evaluation"

Steps == {StepName(i) : i \in Agents}

\* state names of the workflow definition
AgentStep(i) ==
    CASE i = 0 -> "Agent0Step"
      [] i = 1 -> "Agent1Step"
      [] i = 2 -> "Agent2Step"
      [] i = 3 -> "Agent3Step"
      [] i = 4 -> "Agent4Step"
      [] i = 5 -> "Agent5Step"

StartAt == "Agent0Step"

\* a Next that names the state itself: f"Agent{i}Step"
NextOf_same(i) == IF i < 5 THEN AgentStep(i) ELSE "NotifySuccess"

\* a Next that starts the pipeline over after the last agent
NextOf_back(i) == IF i < 5 THEN AgentStep(i + 1) ELSE "Agent0Step"

\* "Next": f"Agent{i+1}Step" if i < 5 else "NotifySuccess"
NextOf(i) == IF i < 5 THEN AgentStep(i + 1) ELSE "NotifySuccess"

\* "Retry": [{ErrorEquals, IntervalSeconds, MaxAttempts, BackoffRate}]
LambdaErrors ==
    {"Lambda.ServiceException", "Lambda.AWSLambdaException", "Lambda.SdkClientException"}

\* a Catch that carries on with the pipeline instead of leaving it
CatchNext_on == "Agent5Step"

\* "Catch": [{"ErrorEquals": ["States.ALL"], "ResultPath": "$.error", "Next": "FailureNotify"}]
CatchNext == "FailureNotify"

\* ---------------------------------------------------------------- errors
\* An error as the state machine sees it: Error is its name, Cause its text.
NoError == [Error |-> NULL, Cause |-> NULL]

\* what an exception raised inside a handler is about
Causes == {"ThrottlingException", "ValidationException"}

\* a Python exception escaping lambda_handler: Error is the exception class
HandlerError(cause) == [Error |-> "ClientError", Cause |-> cause]

ServiceError(name) == [Error |-> name, Cause |-> "service"]

\* error classes of the design: service overload and Lambda service errors are
\* transient, a rejected request is fatal
Transient(err) == err.Error \in LambdaErrors \/ err.Cause = "ThrottlingException"

VARIABLES
    pc,         \* pc[e]: the state execution e is in ("NotStarted", a state name,
                \*        "End", or "Closed": ended before a later execution started)
    data,       \* data[e]: the state data (the JSON document passed between states)
    retries,    \* retries[e]: retries already made of the current state
    status,     \* status[e]: the execution status describe_execution reports
    execError,  \* execError[e]: the error describe_execution reports
    table,      \* the DynamoDB table: a set of items
    assets,     \* the assets bucket: the keys stored
    topic,      \* topic[e]: the messages published to the SNS topic in execution e
                \*           (the topic stores nothing: this is what subscribers received)
    last,       \* last[e]: the latest invocation of a handler in execution e
    attempts,   \* attempts[e]: invocations made of the task state entered last
    startId,    \* startId[e]: the campaign_id execution e was started with
    failedAt,   \* failedAt[e]: index of the agent whose error was caught, or -1
    caught,     \* caught[e]: the error that was caught
    lastPut,    \* lastPut[k]: the content of the last successful put_item under key k
    delay,      \* delay[e]: seconds waited before the retry now due (0: none)
    inflight    \* inflight[e]: invocations made in execution e that have not returned

vars == <<pc, data, retries, status, execError, table, assets, topic, last, attempts,
          startId, failedAt, caught, lastPut, delay, inflight>>

\* ------------------------------------------------------------ State Store
\* KeySchema: campaign_id HASH, step RANGE
KeyOf(item) == <<item.campaign_id, item.step>>

Keys == AllIds \X Steps

Item(id, step, content) == [campaign_id |-> id, step |-> step, data |-> content]

\* a put that adds the item without replacing the one under its key
PutItem_append(tbl, item) == tbl \cup {item}

\* a put that is acknowledged and lost
PutItem_lost(tbl, item) == tbl

\* a put that leaves the item already under the key (attribute_not_exists)
PutItem_ifabsent(tbl, item) ==
    IF \E r \in tbl : KeyOf(r) = KeyOf(item) THEN tbl ELSE tbl \cup {item}

\* dynamodb.put_item: the item replaces any item with the same key
PutItem(tbl, item) == {r \in tbl : KeyOf(r) # KeyOf(item)} \cup {item}

\* dynamodb.get_item: the set of items under the key (empty: no 'Item' in resp)
GetItem(tbl, id, step) == {r \in tbl : KeyOf(r) = <<id, step>>}

\* ------------------------------------------------------------- handlers
\* What the state machine gives a handler: "Parameters": {"campaign_id.$": "$.campaign_id"}
Parameters(d) == [campaign_id |-> d.campaign_id, brief_ref |-> NULL, brief |-> NULL]

\* The brief stored in the briefs bucket under a locator: the notebook starts the
\* execution with the campaign_id of the brief it uploaded.
GetObject(ref) == [campaign_id |-> ref]

\* the text generated in execution e
Content(e) == e

\* How an invocation can go: the collaborator call that fails ("none": all succeed;
\* "timeout": all succeed but the function's Timeout of 60 seconds runs out before
\* the handler returns), what the failure is about, the outcome of the Kendra query,
\* and whether the publish inside agent5's except branch succeeds.
FailPoints(i) ==
    {"none", "generate", "put", "timeout"}
        \cup (IF i = 3 THEN {"s3put"} ELSE {})
        \cup (IF i = 5 THEN {"publish"} ELSE {})

Outcomes(i) ==
    {o \in [fail : FailPoints(i), cause : Causes, kendra : {"hit", "error"}, notice : BOOLEAN] :
        /\ (o.fail \in {"none", "timeout"} => o.cause = "ThrottlingException")
        /\ (i # 1 => o.kendra = "hit")
        /\ (i # 5 \/ o.fail \in {"none", "timeout"} => o.notice)}

\* the handler returns {"campaign_id": id, ...}
Return(id, tbl, ast, pubs, put) ==
    [ok |-> TRUE, campaign_id |-> id, error |-> NoError,
     table |-> tbl, assets |-> ast, pubs |-> pubs, put |-> put]

\* the handler logs and re-raises
Raise(cause, tbl, ast, pubs, put) ==
    [ok |-> FALSE, campaign_id |-> NULL, error |-> HandlerError(cause),
     table |-> tbl, assets |-> ast, pubs |-> pubs, put |-> put]

\* the function is stopped at its Timeout: no except branch runs, what the handler
\* did so far stays done
TimeoutError == [Error |-> "Sandbox.Timedout", Cause |-> "timeout"]

TimedOut(tbl, ast, pubs, put) ==
    [ok |-> FALSE, campaign_id |-> NULL, error |-> TimeoutError,
     table |-> tbl, assets |-> ast, pubs |-> pubs, put |-> put]

\* Agent 0: Input Extractor
agent0_code(event, o, e, tbl, ast) ==
    LET fetch == event.brief_ref # NULL
        brief == IF fetch THEN GetObject(event.brief_ref)
                 ELSE IF event.brief # NULL THEN [campaign_id |-> event.brief]
                 ELSE [campaign_id |-> NULL]
        campaign_id == IF brief.campaign_id # NULL THEN brief.campaign_id ELSE UNKNOWN
        item == Item(campaign_id, "input_extracted", Content(e))
    IN  IF fetch /\ o.fail = "s3get" THEN Raise(o.cause, tbl, ast, <<>>, {})
        ELSE IF o.fail = "generate" THEN Raise(o.cause, tbl, ast, <<>>, {})
        ELSE IF o.fail = "put" THEN Raise(o.cause, tbl, ast, <<>>, {})
        ELSE IF o.fail = "timeout" THEN TimedOut(PutItem(tbl, item), ast, <<>>, {item})
        ELSE Return(campaign_id, PutItem(tbl, item), ast, <<>>, {item})

\* a Kendra query without the inner try/except: its exception leaves the block
kendra_query_unguarded(o) ==
    [raised |-> o.kendra = "error",
     info |-> IF o.kendra = "hit" THEN "insights" ELSE NULL]

\* try: qres = kendra.query(...) ... except Exception as ke: logging.warning(...)
\* The block leaves kendra_info empty when the query fails; no exception leaves it.
kendra_query(o) ==
    [raised |-> FALSE,
     info |-> IF o.kendra = "hit" THEN "insights" ELSE NULL]

\* Agent 1: Business Interpreter (the query is made when the brief names an audience)
agent1_code(event, o, e, tbl, ast) ==
    LET campaign_id == event.campaign_id
        brief_data == GetItem(tbl, campaign_id, "input_extracted")
        audience == brief_data # {}
        query == IF audience THEN kendra_query(o) ELSE [raised |-> FALSE, info |-> NULL]
        kendra_info == query.info
        item == Item(campaign_id, "business_context", Content(e))
    IN  IF query.raised THEN Raise(o.cause, tbl, ast, <<>>, {})
        ELSE IF o.fail = "generate" THEN Raise(o.cause, tbl, ast, <<>>, {})
        ELSE IF o.fail = "put" THEN Raise(o.cause, tbl, ast, <<>>, {})
        ELSE IF o.fail = "timeout" THEN TimedOut(PutItem(tbl, item), ast, <<>>, {item})
        ELSE Return(campaign_id, PutItem(tbl, item), ast, <<>>, {item})

\* Agent 2: Campaign Planner
agent2_code(event, o, e, tbl, ast) ==
    LET campaign_id == event.campaign_id
        item == Item(campaign_id, "campaign_plan", Content(e))
    IN  IF o.fail = "generate" THEN Raise(o.cause, tbl, ast, <<>>, {})
        ELSE IF o.fail = "put" THEN Raise(o.cause, tbl, ast, <<>>, {})
        ELSE IF o.fail = "timeout" THEN TimedOut(PutItem(tbl, item), ast, <<>>, {item})
        ELSE Return(campaign_id, PutItem(tbl, item), ast, <<>>, {item})

\* Agent 3: Content Generator (stores the content in the table, then in the bucket)
agent3_code(event, o, e, tbl, ast) ==
    LET campaign_id == event.campaign_id
        item == Item(campaign_id, "content_samples", Content(e))
    IN  IF o.fail = "generate" THEN Raise(o.cause, tbl, ast, <<>>, {})
        ELSE IF o.fail = "put" THEN Raise(o.cause, tbl, ast, <<>>, {})
        ELSE IF o.fail = "s3put" THEN Raise(o.cause, PutItem(tbl, item), ast, <<>>, {item})
        ELSE IF o.fail = "timeout"
             THEN TimedOut(PutItem(tbl, item), ast \cup {campaign_id}, <<>>, {item})
        ELSE Return(campaign_id, PutItem(tbl, item), ast \cup {campaign_id}, <<>>, {item})

\* Agent 4: Channel Strategist
agent4_code(event, o, e, tbl, ast) ==
    LET campaign_id == event.campaign_id
        item == Item(campaign_id, "channel_strategy", Content(e))
    IN  IF o.fail = "generate" THEN Raise(o.cause, tbl, ast, <<>>, {})
        ELSE IF o.fail = "put" THEN Raise(o.cause, tbl, ast, <<>>, {})
        ELSE IF o.fail = "timeout" THEN TimedOut(PutItem(tbl, item), ast, <<>>, {item})
        ELSE Return(campaign_id, PutItem(tbl, item), ast, <<>>, {item})

\* a message on the topic: its subject, its text as the sequence of its parts, and
\* the component that published it
Msg(subject, text, by) == [subject |-> subject, message |-> text, by |-> by]

\* Agent 5: Evaluator (publishes a summary itself; its except branch publishes a
\* failure notice before re-raising)
agent5_code(event, o, e, tbl, ast) ==
    LET campaign_id == event.campaign_id
        item == Item(campaign_id, "evaluation", Content(e))
        complete == Msg("Campaign Plan Complete",
                        <<"Campaign", campaign_id, "planning complete. Summary:", "evaluation">>,
                        "agent5")
        failed == Msg("Campaign Plan Failed",
                      <<"Campaign", campaign_id, "failed at evaluation step:", o.cause>>,
                      "agent5")
        notice == IF o.notice THEN <<failed>> ELSE <<>>
    IN  IF o.fail = "generate" THEN Raise(o.cause, tbl, ast, notice, {})
        ELSE IF o.fail = "put" THEN Raise(o.cause, tbl, ast, notice, {})
        ELSE IF o.fail = "publish" THEN Raise(o.cause, PutItem(tbl, item), ast, notice, {item})
        ELSE IF o.fail = "timeout" THEN TimedOut(PutItem(tbl, item), ast, <<complete>>, {item})
        ELSE Return(campaign_id, PutItem(tbl, item), ast, <<complete>>, {item})

\* agent_codes = [agent0_code, ..., agent5_code]; state Agent{i}Step invokes lambda_arns[i]
agent_codes(i, event, o, e, tbl, ast) ==
    CASE i = 0 -> agent0_code(event, o, e, tbl, ast)
      [] i = 1 -> agent1_code(event, o, e, tbl, ast)
      [] i = 2 -> agent2_code(event, o, e, tbl, ast)
      [] i = 3 -> agent3_code(event, o, e, tbl, ast)
      [] i = 4 -> agent4_code(event, o, e, tbl, ast)
      [] i = 5 -> agent5_code(event, o, e, tbl, ast)

\* the steps whose records handler i asks the table for (dynamodb.get_item)
Reads(i) ==
    CASE i = 0 -> {}
      [] i = 1 -> {"input_extracted"}
      [] i = 2 -> {"business_context", "input_extracted"}
      [] i = 3 -> {"campaign_plan", "input_extracted"}
      [] i = 4 -> {"campaign_plan", "input_extracted"}
      [] i = 5 -> {"campaign_plan", "content_samples", "channel_strategy"}

\* the steps among them for which get_item returns no 'Item'
Missing(i, id, tbl) == {s \in Reads(i) : GetItem(tbl, id, s) = {}}

\* ------------------------------------------------------- the state machine
\* the state data an execution is started with (start_execution input)
StartInput(id) == [campaign_id |-> id, brief_ref |-> id, error |-> NoError]

\* state data without the fields the workflow uses (before the start, and the
\* result of a terminal publish task)
NoData == [campaign_id |-> NULL, brief_ref |-> NULL, error |-> NoError]

\* no ResultPath on the task: the handler's return value replaces the state data
TaskOutput(res) == [campaign_id |-> res.campaign_id, brief_ref |-> NULL, error |-> NoError]

\* Catch with "ResultPath": "$.error": the state's input with the error added
CaughtData(d, err) == [d EXCEPT !.error = err]

\* a Retry that counts the first invocation among its MaxAttempts
Retriable_total(err, n) == err.Error \in LambdaErrors /\ n + 1 < MaxAttempts

\* a Retry on every error ("ErrorEquals": ["States.ALL"])
Retriable_all(err, n) == n < MaxAttempts

\* Retry: the error is one of ErrorEquals and fewer than MaxAttempts retries were made
Retriable(err, n) == err.Error \in LambdaErrors /\ n < MaxAttempts

\* a wait that grows by the interval instead of by the rate
BackoffDelay_linear(n) == IntervalSeconds * (n + 1)

\* the wait before retry number n + 1: IntervalSeconds * BackoffRate^n
BackoffDelay(n) == IntervalSeconds * (BackoffRate ^ n)

\* "Message.$": "States.Format('Campaign {} completed.', $.campaign_id)"
SuccessMessage(d) ==
    Msg("Campaign Success", <<"Campaign", d.campaign_id, "completed.">>, "engine")

\* "Message.$": "States.Format('Campaign {} failed: {}', $.campaign_id, $.error.Error)"
FailureMessage(d) ==
    Msg("Campaign Failed", <<"Campaign", d.campaign_id, "failed:", d.error.Error>>, "engine")

\* the error of an execution whose terminal publish task failed
PublishError == [Error |-> "SNS.SdkClientException", Cause |-> "publish"]

\* an invocation without a failing collaborator call
NoOutcome == [fail |-> "none", cause |-> "ThrottlingException", kendra |-> "hit", notice |-> TRUE]

\* an invocation the Lambda service failed before the handler ran
FaultOutcome == [NoOutcome EXCEPT !.fail = "invoke"]

\* what is on record of an invocation: the agent, the campaign_id of its event, how
\* it ended, the collaborator calls that failed in it and the records it did not find
Call(i, id, ok, transient, o, missing) ==
    [agent |-> i, id |-> id, ok |-> ok, transient |-> transient,
     fail |-> o.fail, kendra |-> o.kendra, missing |-> missing]

NoCall == Call(-1, NULL, TRUE, FALSE, NoOutcome, {})

Init ==
    /\ pc = [e \in Execs |-> "NotStarted"]
    /\ data = [e \in Execs |-> NoData]
    /\ retries = [e \in Execs |-> 0]
    /\ status = [e \in Execs |-> "NONE"]
    /\ execError = [e \in Execs |-> NoError]
    /\ table = {}
    /\ assets = {}
    /\ topic = [e \in Execs |-> <<>>]
    /\ last = [e \in Execs |-> NoCall]
    /\ attempts = [e \in Execs |-> 0]
    /\ startId = [e \in Execs |-> NULL]
    /\ failedAt = [e \in Execs |-> -1]
    /\ caught = [e \in Execs |-> NoError]
    /\ lastPut = [k \in Keys |-> 0]
    /\ delay = [e \in Execs |-> 0]
    /\ inflight = [e \in Execs |-> 0]

\* stepfunctions.start_execution(input = {campaign_id, brief_bucket, brief_key}).
\* Executions are numbered in the order they are started.  What was observed of the
\* executions that ended before this one starts (their invocations and messages) is
\* dropped; their status, the id they were started with and what they left in the
\* table stay.
start_execution(e, id) ==
    /\ pc[e] = "NotStarted"
    /\ \A f \in Execs : f < e => pc[f] # "NotStarted"
    /\ pc' = [f \in Execs |-> IF f = e THEN StartAt
                              ELSE IF pc[f] = "End" THEN "Closed" ELSE pc[f]]
    /\ data' = [data EXCEPT ![e] = StartInput(id)]
    /\ status' = [status EXCEPT ![e] = "RUNNING"]
    /\ startId' = [startId EXCEPT ![e] = id]
    /\ last' = [f \in Execs |-> IF pc[f] = "End" THEN NoCall ELSE last[f]]
    /\ attempts' = [f \in Execs |-> IF pc[f] = "End" THEN 0 ELSE attempts[f]]
    /\ failedAt' = [f \in Execs |-> IF pc[f] = "End" THEN -1 ELSE failedAt[f]]
    /\ caught' = [f \in Execs |-> IF pc[f] = "End" THEN NoError ELSE caught[f]]
    /\ topic' = [f \in Execs |-> IF pc[f] = "End" THEN <<>> ELSE topic[f]]
    /\ UNCHANGED <<retries, execError, table, assets, lastPut, delay, inflight>>

\* The task fails with err: retried under Retry, otherwise caught by Catch.
TaskFailed(e, i, err) ==
    IF Retriable(err, retries[e])
    THEN /\ retries' = [retries EXCEPT ![e] = @ + 1]
         /\ delay' = [delay EXCEPT ![e] = BackoffDelay(retries[e])]
         /\ UNCHANGED <<pc, data, failedAt, caught>>
    ELSE /\ pc' = [pc EXCEPT ![e] = CatchNext]
         /\ data' = [data EXCEPT ![e] = CaughtData(data[e], err)]
         /\ failedAt' = [failedAt EXCEPT ![e] = i]
         /\ caught' = [caught EXCEPT ![e] = err]
         /\ retries' = [retries EXCEPT ![e] = 0]
         /\ delay' = [delay EXCEPT ![e] = 0]

\* a machine that carries the count of retries over to the next state
TaskSucceeded_keep(e, i, res) ==
    /\ pc' = [pc EXCEPT ![e] = NextOf(i)]
    /\ data' = [data EXCEPT ![e] = TaskOutput(res)]
    /\ delay' = [delay EXCEPT ![e] = 0]
    /\ UNCHANGED <<retries, failedAt, caught>>

\* The task succeeds: its result is the state's output and the machine moves to Next.
TaskSucceeded(e, i, res) ==
    /\ pc' = [pc EXCEPT ![e] = NextOf(i)]
    /\ data' = [data EXCEPT ![e] = TaskOutput(res)]
    /\ retries' = [retries EXCEPT ![e] = 0]
    /\ delay' = [delay EXCEPT ![e] = 0]
    /\ UNCHANGED <<failedAt, caught>>

\* The Lambda service fails the invocation: the handler does not run.
InvokeFault(e, i) ==
    /\ \E name \in LambdaErrors :
         TaskFailed(e, i, ServiceError(name))
    /\ last' = [last EXCEPT ![e] =
                  Call(i, data[e].campaign_id, FALSE, TRUE, FaultOutcome, {})]
    /\ UNCHANGED <<table, assets, topic, lastPut>>

\* The handler runs to its return or to its exception.
InvokeHandler(e, i) ==
    \E o \in Outcomes(i) :
      LET event == Parameters(data[e])
          res == agent_codes(i, event, o, e, table, assets)
      IN  /\ table' = res.table
          /\ assets' = res.assets
          /\ topic' = [topic EXCEPT ![e] = @ \o res.pubs]
          /\ lastPut' = [k \in Keys |->
                           IF \E it \in res.put : KeyOf(it) = k
                           THEN (CHOOSE it \in res.put : KeyOf(it) = k).data
                           ELSE lastPut[k]]
          /\ last' = [last EXCEPT ![e] =
                        Call(i, event.campaign_id, res.ok, Transient(res.error), o,
                             Missing(i, event.campaign_id, table))]
          /\ IF res.ok THEN TaskSucceeded(e, i, res) ELSE TaskFailed(e, i, res.error)

\* a Task that sends its request whether or not the last one was answered
Idle_async(e) == TRUE

\* "Resource": lambda_arns[i] is the request-response integration: the state sends
\* one request and waits for its response (or error) before it does anything else
Idle(e) == inflight[e] = 0

\* The Task state the execution is in sends its request to the function.
Invoke(e) ==
    /\ pc[e] \in {AgentStep(i) : i \in Agents}
    /\ Idle(e)
    /\ inflight' = [inflight EXCEPT ![e] = @ + 1]
    /\ UNCHANGED <<pc, data, retries, status, execError, table, assets, topic, last,
                   attempts, startId, failedAt, caught, lastPut, delay>>

\* A Task state Agent{i}Step of the definition: the response to its request arrives
TaskState(e, i) ==
    /\ pc[e] = AgentStep(i)
    /\ inflight[e] > 0
    /\ inflight' = [inflight EXCEPT ![e] = @ - 1]
    /\ (InvokeFault(e, i) \/ InvokeHandler(e, i))
    /\ attempts' = [attempts EXCEPT ![e] = IF last[e].agent = i THEN @ + 1 ELSE 1]
    /\ UNCHANGED <<status, execError, startId>>

Agent0Step(e) == TaskState(e, 0)
Agent1Step(e) == TaskState(e, 1)
Agent2Step(e) == TaskState(e, 2)
Agent3Step(e) == TaskState(e, 3)
Agent4Step(e) == TaskState(e, 4)
Agent5Step(e) == TaskState(e, 5)

\* a terminal task that also deletes what the execution wrote
PublishTask_rollback(e, msg) ==
    /\ pc' = [pc EXCEPT ![e] = "End"]
    /\ data' = [data EXCEPT ![e] = NoData]
    /\ table' = {r \in table : r.data # Content(e)}
    /\ \E published \in BOOLEAN :
         IF published
         THEN /\ topic' = [topic EXCEPT ![e] = Append(@, msg)]
              /\ status' = [status EXCEPT ![e] = "SUCCEEDED"]
              /\ UNCHANGED execError
         ELSE /\ status' = [status EXCEPT ![e] = "FAILED"]
              /\ execError' = [execError EXCEPT ![e] = PublishError]
              /\ UNCHANGED topic
    /\ UNCHANGED <<retries, assets, last, attempts, startId, failedAt, caught,
                   lastPut, delay, inflight>>

\* A terminal sns:publish task with "End": True: the execution ends SUCCEEDED when the
\* publish succeeds, and FAILED with the publish error when it does not (the state
\* has no Retry and no Catch).
PublishTask(e, msg) ==
    /\ pc' = [pc EXCEPT ![e] = "End"]
    /\ data' = [data EXCEPT ![e] = NoData]
    /\ \E published \in BOOLEAN :
         IF published
         THEN /\ topic' = [topic EXCEPT ![e] = Append(@, msg)]
              /\ status' = [status EXCEPT ![e] = "SUCCEEDED"]
              /\ UNCHANGED execError
         ELSE /\ status' = [status EXCEPT ![e] = "FAILED"]
              /\ execError' = [execError EXCEPT ![e] = PublishError]
              /\ UNCHANGED topic
    /\ UNCHANGED <<retries, table, assets, last, attempts, startId, failedAt, caught,
                   lastPut, delay, inflight>>

NotifySuccess(e) ==
    /\ pc[e] = "NotifySuccess"
    /\ PublishTask(e, SuccessMessage(data[e]))

FailureNotify(e) ==
    /\ pc[e] = "FailureNotify"
    /\ PublishTask(e, FailureMessage(data[e]))

\* stepfunctions.describe_execution
describe_execution(e) == [status |-> status[e], error |-> execError[e]]

\* no execution is in progress
NoneRunning == \A e \in Execs : pc[e] \in {"NotStarted", "End", "Closed"}

\* Executions are started one after another, as the notebook starts its test run.
Next ==
    \/ \E e \in Execs, id \in Ids : NoneRunning /\ start_execution(e, id)
    \/ \E e \in Execs : Invoke(e)
    \/ \E e \in Execs : Agent0Step(e)
    \/ \E e \in Execs : Agent1Step(e)
    \/ \E e \in Execs : Agent2Step(e)
    \/ \E e \in Execs : Agent3Step(e)
    \/ \E e \in Execs : Agent4Step(e)
    \/ \E e \in Execs : Agent5Step(e)
    \/ \E e \in Execs : NotifySuccess(e)
    \/ \E e \in Execs : FailureNotify(e)

Spec == Init /\ [][Next]_vars

\* ------------------------------------------------- concurrent executions
\* start_execution does not wait for the executions in progress: the state machine
\* runs any number of executions at once, each with its own state data, over the one
\* table, bucket and topic.  The interleavings explored are those in which a handler
\* either succeeds or has its generation request rejected; the other failures are
\* explored one execution at a time under Spec.
Undisturbed(e) ==
    /\ last'[e].fail \in {"none", "generate"}
    /\ last'[e].kendra = "hit"
    /\ ~last'[e].transient

NextConcurrent ==
    \/ \E e \in Execs, id \in Ids : start_execution(e, id)
    \/ \E e \in Execs : Invoke(e)
    \/ \E e \in Execs : Agent0Step(e) /\ Undisturbed(e)
    \/ \E e \in Execs : Agent1Step(e) /\ Undisturbed(e)
    \/ \E e \in Execs : Agent2Step(e) /\ Undisturbed(e)
    \/ \E e \in Execs : Agent3Step(e) /\ Undisturbed(e)
    \/ \E e \in Execs : Agent4Step(e) /\ Undisturbed(e)
    \/ \E e \in Execs : Agent5Step(e) /\ Undisturbed(e)
    \/ \E e \in Execs : NotifySuccess(e)
    \/ \E e \in Execs : FailureNotify(e)

SpecConcurrent == Init /\ [][NextConcurrent]_vars

\* ------------------------------------------------------------- progress
\* A step of execution e.  The service runs every execution it has started: a request
\* that can be sent is sent, and a call that was made returns, with its result or
\* with its error (the function's Timeout bounds the wait).
Step(e) ==
    \/ Invoke(e)
    \/ Agent0Step(e) \/ Agent1Step(e) \/ Agent2Step(e)
    \/ Agent3Step(e) \/ Agent4Step(e) \/ Agent5Step(e)
    \/ NotifySuccess(e) \/ FailureNotify(e)

SpecLive == Spec /\ \A e \in Execs : WF_vars(Step(e))

\* ------------------------------------------- a handler invoked on its own
\* The handlers are Lambda functions: lambda_handler(event, context) can be invoked
\* with any event, whatever the table holds.  Here one handler is invoked once, over
\* a table in which an earlier run for campaign X left the records of some steps.
HandlerSlot == 2

PriorTables == {{Item("X", st, Content(1)) : st \in S} : S \in SUBSET Steps}

\* the events a caller can build: a campaign_id, with or without the brief's locator
Events == [campaign_id : Ids, brief_ref : {NULL, "X"}, brief : {NULL}]

\* the outcomes of an invocation that fetches the brief: get_object may fail too
HandlerOutcomes(i, event) ==
    Outcomes(i) \cup
        (IF i = 0 /\ event.brief_ref # NULL
         THEN {[NoOutcome EXCEPT !.fail = "s3get", !.cause = c] : c \in Causes}
         ELSE {})

InitHandlers ==
    /\ pc = [e \in Execs |-> "NotStarted"]
    /\ data = [e \in Execs |-> NoData]
    /\ retries = [e \in Execs |-> 0]
    /\ status = [e \in Execs |-> "NONE"]
    /\ execError = [e \in Execs |-> NoError]
    /\ table \in PriorTables
    /\ assets = {}
    /\ topic = [e \in Execs |-> <<>>]
    /\ last = [e \in Execs |-> NoCall]
    /\ attempts = [e \in Execs |-> 0]
    /\ startId = [e \in Execs |-> NULL]
    /\ failedAt = [e \in Execs |-> -1]
    /\ caught = [e \in Execs |-> NoError]
    /\ lastPut = [k \in Keys |-> IF \E r \in table : KeyOf(r) = k THEN Content(1) ELSE 0]
    /\ delay = [e \in Execs |-> 0]
    /\ inflight = [e \in Execs |-> 0]

\* lambda_handler(event, context) of agent i
lambda_handler(i, event) ==
    /\ last[HandlerSlot].agent = -1
    /\ \E o \in HandlerOutcomes(i, event) :
         LET res == agent_codes(i, event, o, HandlerSlot, table, assets)
         IN  /\ table' = res.table
             /\ assets' = res.assets
             /\ topic' = [topic EXCEPT ![HandlerSlot] = @ \o res.pubs]
             /\ lastPut' = [k \in Keys |->
                              IF \E it \in res.put : KeyOf(it) = k
                              THEN (CHOOSE it \in res.put : KeyOf(it) = k).data
                              ELSE lastPut[k]]
             /\ last' = [last EXCEPT ![HandlerSlot] =
                           Call(i, event.campaign_id, res.ok, Transient(res.error), o,
                                Missing(i, event.campaign_id, table))]
             /\ caught' = [caught EXCEPT ![HandlerSlot] = res.error]
    /\ attempts' = [attempts EXCEPT ![HandlerSlot] = 1]
    /\ UNCHANGED <<pc, data, retries, status, execError, startId, failedAt, delay,
                   inflight>>

NextHandlers == \E i \in Agents, event \in Events : lambda_handler(i, event)

SpecHandlers == InitHandlers /\ [][NextHandlers]_vars

\* ------------------------------------------------------------------ claims
Contains(text, part) == \E k \in 1..Len(text) : text[k] = part

\* execution e is one whose invocations and messages are on record
Observed(e) == pc[e] \notin {"NotStarted", "Closed"}

\* a handler was invoked in execution e in this step
Invoked(e) ==
    /\ last'[e].agent >= 0
    /\ <<last'[e], attempts'[e]>> # <<last[e], attempts[e]>>

\* C1: in an execution that reaches Success the agents are invoked in increasing
\* index order 0..N-1: every invocation is of the agent after the one that just
\* succeeded (agent 0 first) or a retry of the agent whose own transient failure came
\* last, and NotifySuccess is entered only after the last agent succeeded.
C1_Ordering ==
    /\ [](\A e \in Execs :
            pc[e] = "NotifySuccess" => last[e].agent = NumAgents - 1 /\ last[e].ok)
    /\ [][\A e \in Execs :
            Invoked(e) =>
                \/ last[e].ok /\ last'[e].agent = last[e].agent + 1
                \/ ~last[e].ok /\ last[e].transient /\ last'[e].agent = last[e].agent]_vars

\* a run that reached Success after its last agent was retried
C1_Witness ==
    \E e \in Execs :
        /\ pc[e] = "End" /\ failedAt[e] = -1
        /\ last[e].agent = NumAgents - 1 /\ attempts[e] > 1

\* C2: an execution whose terminal publish went through has published exactly one
\* notification over all components.
C2_ExactlyOneNotification ==
    \A e \in Execs :
        pc[e] = "End" /\ status[e] = "SUCCEEDED" => Len(topic[e]) = 1

\* C3 (as claimed): an agent whose every invocation fails with a retried error is
\* invoked exactly MaxAttempts = 3 times before the failure path is entered.
C3_ThreeInvocations ==
    \A e \in Execs :
        pc[e] = "FailureNotify" /\ caught[e].Error \in LambdaErrors
            => attempts[e] = MaxAttempts

\* C3 (amended): such an agent is invoked exactly MaxAttempts + 1 = 4 times, the
\* first invocation and MaxAttempts retries.
C3_FourInvocations ==
    \A e \in Execs :
        pc[e] = "FailureNotify" /\ caught[e].Error \in LambdaErrors
            => attempts[e] = MaxAttempts + 1

C3_Witness ==
    \E e \in Execs :
        /\ pc[e] = "FailureNotify" /\ caught[e].Error \in LambdaErrors
        /\ attempts[e] = 4 /\ failedAt[e] = 2

\* C4: after a failed invocation the machine either retries that same agent or is on
\* the failure path; once agent i has terminally failed it stays the last agent
\* invoked, so no agent i+1..N-1 is invoked.
C4_ShortCircuit ==
    \A e \in Execs :
        /\ Observed(e) /\ ~last[e].ok =>
              \/ pc[e] = AgentStep(last[e].agent) /\ retries[e] > 0
              \/ pc[e] \in {"FailureNotify", "End"} /\ failedAt[e] = last[e].agent
        /\ failedAt[e] >= 0 =>
              /\ last[e].agent = failedAt[e] /\ ~last[e].ok
              /\ pc[e] \in {"FailureNotify", "End"}

\* an execution that ended after agent 2 terminally failed
C4_Witness ==
    \E e \in Execs : pc[e] = "End" /\ failedAt[e] = 2 /\ last[e].agent = 2

\* C5: an execution in which an agent terminally failed is reported Failed, with the
\* captured error.
C5_FailedStatus ==
    \A e \in Execs :
        pc[e] = "End" /\ failedAt[e] >= 0 =>
            /\ describe_execution(e).status = "FAILED"
            /\ describe_execution(e).error = caught[e]

\* C6: every invocation receives the campaign id the execution was started with, and
\* every record an execution wrote is keyed by it.
C6_EntityIdCarried ==
    \A e \in Execs :
        Observed(e) =>
            /\ last[e].agent >= 0 => last[e].id = startId[e]
            /\ \A r \in table : r.data = Content(e) => r.campaign_id = startId[e]

\* C7: an execution all of whose agents succeeded ends Succeeded with exactly one
\* record for each step under the id it was started with.
C7_SuccessScenario ==
    \A e \in Execs :
        pc[e] = "End" /\ failedAt[e] = -1 =>
            /\ describe_execution(e).status = "SUCCEEDED"
            /\ \A i \in Agents :
                 Cardinality(GetItem(table, startId[e], StepName(i))) = 1

\* C8: after agent i terminally failed, the table holds no record of step i written
\* by that execution.
C8_NoRecordOfFailedStep ==
    \A e \in Execs :
        Observed(e) /\ failedAt[e] >= 0 =>
            \A r \in GetItem(table, last[e].id, StepName(failedAt[e])) :
                r.data # Content(e)

\* C9: the message of the terminal notification names the campaign id the execution
\* was started with, and on the failure path the captured error.
C9_MessageContent ==
    \A e \in Execs :
        \A k \in 1..Len(topic[e]) :
            topic[e][k].by = "engine" =>
                /\ Contains(topic[e][k].message, startId[e])
                /\ failedAt[e] >= 0 => Contains(topic[e][k].message, caught[e].Error)

\* C10: the table holds at most one record under each key, and it is the one the
\* last successful put_item under that key wrote.
C10_OneRecordPerKey ==
    \A k \in Keys :
        LET held == {r \in table : KeyOf(r) = k}
        IN  /\ Cardinality(held) <= 1
            /\ lastPut[k] = 0 => held = {}
            /\ lastPut[k] # 0 => \E r \in held : r.data = lastPut[k]

\* a record of the first execution was overwritten by the second
C10_Witness ==
    /\ lastPut[<<UNKNOWN, "input_extracted">>] = 2
    /\ \E r \in table : r.step = "business_context" /\ r.data = 1

\* how far along the workflow a state is: the agent states by index, then the two
\* notification states, then the end
Rank(p) ==
    CASE p = "NotStarted" -> -1
      [] p \in {AgentStep(i) : i \in Agents} -> CHOOSE i \in Agents : p = AgentStep(i)
      [] p \in {"NotifySuccess", "FailureNotify"} -> NumAgents
      [] p = "End" -> NumAgents + 1
      [] p = "Closed" -> NumAgents + 2

\* C11: the status of an execution changes once, from RUNNING to SUCCEEDED or FAILED,
\* and never again; once NotifySuccess or FailureNotify has been entered no agent is
\* invoked and neither state is entered again; the machine never moves to an agent
\* state of a lower index.
C11_TerminalOnce ==
    [][\A e \in Execs :
        /\ status[e] \in {"SUCCEEDED", "FAILED"} => status'[e] = status[e]
        /\ status[e] = "RUNNING" => status'[e] \in {"RUNNING", "SUCCEEDED", "FAILED"}
        /\ status'[e] = "RUNNING" <=> Rank(pc'[e]) \in 0..NumAgents
        /\ Rank(pc[e]) >= NumAgents =>
              /\ ~Invoked(e)
              /\ Rank(pc'[e]) > Rank(pc[e]) \/ pc'[e] = pc[e]
              /\ pc'[e] \notin {"NotifySuccess", "FailureNotify"} \/ pc'[e] = pc[e]
        /\ Rank(pc'[e]) >= Rank(pc[e])]_vars

\* both terminal statuses were reached, one execution after the other
C11_Witness ==
    /\ pc[1] = "Closed" /\ status[1] = "FAILED"
    /\ pc[2] = "End" /\ status[2] = "SUCCEEDED" /\ failedAt[2] = -1

\* C12: when the terminal publish fails, the execution keeps the status its agents
\* earned: SUCCEEDED when every agent succeeded, FAILED when one terminally failed.
C12_NotifyFailureKeepsStatus ==
    \A e \in Execs :
        pc[e] = "End" /\ describe_execution(e).error = PublishError =>
            describe_execution(e).status =
                IF failedAt[e] = -1 THEN "SUCCEEDED" ELSE "FAILED"

\* C13: an agent failure of a transient class, one raised inside the handler
\* included, reaches the failure path only after the agent was re-invoked as the
\* retry policy says (MaxAttempts retries), never on its first occurrence.
C13_TransientRetried ==
    \A e \in Execs :
        pc[e] = "FailureNotify" /\ Transient(caught[e]) =>
            attempts[e] = MaxAttempts + 1

\* C14: after an invocation failed with a fatal error the machine is on the failure
\* path with that agent as the failed one and no retry pending, no handler is invoked
\* again in the execution, and a step whose first invocation fails fatally has been
\* invoked exactly once when FailureNotify is entered.
C14_FatalNotRetried ==
    /\ [](\A e \in Execs :
            Observed(e) /\ ~last[e].ok /\ ~last[e].transient =>
                /\ pc[e] \in {"FailureNotify", "End"}
                /\ failedAt[e] = last[e].agent
                /\ retries[e] = 0)
    /\ [][\A e \in Execs :
            /\ Observed(e) /\ ~last[e].ok /\ ~last[e].transient => ~Invoked(e)
            /\ Invoked(e) /\ ~last'[e].ok /\ ~last'[e].transient
                  /\ last[e].agent # last'[e].agent =>
                    attempts'[e] = 1 /\ pc'[e] = "FailureNotify"]_vars

\* agent 1 was invoked once, failed with a rejected request, and the execution ended
C14_Witness ==
    \E e \in Execs :
        /\ pc[e] = "End" /\ failedAt[e] = 1
        /\ ~last[e].ok /\ ~last[e].transient /\ attempts[e] = 1

\* C15: a handler that does not find the record of a prior step it asks for fails,
\* with a fatal error, and writes no record of its own step.
C15_MissingRecordFails ==
    LET c == last[HandlerSlot]
    IN  c.agent >= 0 /\ c.missing # {} =>
            /\ ~c.ok /\ ~c.transient
            /\ \A r \in GetItem(table, c.id, StepName(c.agent)) :
                    r.data # Content(HandlerSlot)

\* C16: the locator of the brief the execution was started with is in the event of
\* Agent0's invocation.
C16_InputReferenceDelivered ==
    \A e \in Execs :
        pc[e] = StartAt =>
            Parameters(data[e]).brief_ref = StartInput(startId[e]).brief_ref

\* the number of steps execution e has completed
Completed(e) ==
    IF failedAt[e] >= 0 THEN failedAt[e]
    ELSE IF Rank(pc[e]) \in 0..NumAgents THEN Rank(pc[e])
    ELSE NumAgents

\* C17: while the executions on record were started for distinct campaign ids, the
\* record of every step an execution completed is still the one it wrote: no
\* execution of another campaign has overwritten it.
C17_NoCrossEntityInterference ==
    \A e \in Execs :
        /\ Observed(e)
        /\ \A f \in Execs \ {e} : Observed(f) => startId[f] # startId[e]
        => \A i \in 0..(Completed(e) - 1) :
               \E r \in table : r.step = StepName(i) /\ r.data = Content(e)

\* execution e was started for a campaign id an earlier execution was started for
Rerun(e) == \E f \in Execs : f < e /\ pc[f] = "Closed" /\ startId[f] = startId[e]

\* C18: an execution started for a campaign id that an earlier execution ran for
\* begins at Agent0, and the record of every step it has completed is the one it
\* wrote itself: no agent is skipped because a record is there already, and the
\* earlier run's record is overwritten.  It reaches NotifySuccess with all steps
\* completed.
C18_RerunFromStart ==
    /\ [](\A e \in Execs :
            Observed(e) /\ Rerun(e) =>
                /\ \A i \in 0..(Completed(e) - 1) :
                      \E r \in table : r.step = StepName(i) /\ r.data = Content(e)
                /\ pc[e] = "NotifySuccess" => last[e].agent = NumAgents - 1 /\ last[e].ok)
    /\ [][\A e \in Execs :
            /\ pc[e] = "NotStarted" /\ pc'[e] # "NotStarted" => pc'[e] = AgentStep(0)
            /\ Observed(e) /\ Rerun(e) /\ Invoked(e) /\ last[e].agent = -1 =>
                  last'[e].agent = 0]_vars

\* the second run for a campaign has overwritten the first run's record of step 0 and
\* is about to run agent 3, whose record from the first run is still in the table
C18_Witness ==
    /\ pc[1] = "Closed" /\ startId[1] = startId[2]
    /\ pc[2] = AgentStep(3)
    /\ \E r \in table : r.step = "content_samples" /\ r.data = Content(1)
    /\ \E r \in table : r.step = "input_extracted" /\ r.data = Content(2)

\* C20: an invocation of agent 1 whose Kendra query failed and whose other calls
\* succeeded succeeds: the record of its step is written and the machine is at the
\* next agent.
C20_LookupFailureTolerated ==
    \A e \in Execs :
        /\ Observed(e) /\ last[e].agent = 1
        /\ last[e].kendra = "error" /\ last[e].fail = "none"
        => /\ last[e].ok
           /\ pc[e] = AgentStep(2)
           /\ \E r \in GetItem(table, last[e].id, StepName(1)) : r.data = Content(e)

\* agent 1 succeeded although its query failed
C20_Witness ==
    \E e \in Execs :
        /\ last[e].agent = 1 /\ last[e].kendra = "error" /\ last[e].ok
        /\ last[e].missing = {} /\ pc[e] = AgentStep(2)

\* C21: when the machine is at the state after Agent{i}Step, whether the next agent's
\* invocation is still to be made, in flight or being retried, agent i has succeeded
\* in this execution and the record of step i it wrote is in the table under the
\* campaign_id the next agent is given.
C21_RecordBeforeNext ==
    \A e \in Execs : \A i \in Agents :
        pc[e] = NextOf(i) =>
            /\ \/ last[e].agent = i /\ last[e].ok
               \/ last[e].agent = i + 1 /\ ~last[e].ok
            /\ \E r \in GetItem(table, data[e].campaign_id, StepName(i)) :
                    r.data = Content(e)

\* agent 2's invocation is in flight in the second execution, after agent 1 succeeded
C21_Witness ==
    /\ pc[2] = AgentStep(2) /\ inflight[2] = 1
    /\ last[2].agent = 1 /\ last[2].ok

\* C22: with attempts_made the re-invocations already made of the step (the
\* invocations made less one), after a transient failure the same agent is to be
\* re-invoked if attempts_made < MaxAttempts, and the step has terminally failed if
\* attempts_made = MaxAttempts.
C22_RetryRule ==
    \A e \in Execs :
        Observed(e) /\ ~last[e].ok /\ last[e].transient =>
            IF attempts[e] - 1 < MaxAttempts
            THEN pc[e] = AgentStep(last[e].agent) /\ retries[e] = attempts[e]
            ELSE pc[e] \in {"FailureNotify", "End"} /\ failedAt[e] = last[e].agent

\* C23: the wait before the first, second and third retry of a step is 2, 4 and 8
\* seconds, and the waits grow strictly within the step.
C23_BackoffDelays ==
    /\ [](\A e \in Execs :
            delay[e] = CASE retries[e] = 0 -> 0
                         [] retries[e] = 1 -> 2
                         [] retries[e] = 2 -> 4
                         [] retries[e] = 3 -> 8)
    /\ [][\A e \in Execs : retries'[e] > retries[e] => delay'[e] > delay[e]]_vars

\* the third retry of agent 4 is due after 8 seconds
C23_Witness ==
    \E e \in Execs : pc[e] = AgentStep(4) /\ retries[e] = 3 /\ delay[e] = 8

\* C24: the retries counted at an agent state are those of that state alone: none
\* before its first invocation, whatever the earlier agents used.
C24_RetriesPerStep ==
    \A e \in Execs : \A i \in Agents :
        pc[e] = AgentStep(i) =>
            retries[e] = IF last[e].agent = i THEN attempts[e] ELSE 0

\* agent 0 succeeded at its fourth invocation and agent 1 starts with no retry made
C24_Witness ==
    \E e \in Execs :
        /\ pc[e] = AgentStep(1) /\ retries[e] = 0
        /\ last[e].agent = 0 /\ last[e].ok /\ attempts[e] = MaxAttempts + 1

\* C25: an invocation of agent i changes no record of the table other than the one
\* under (the campaign id of the execution, the step name of agent i).
C25_FrameOfInvocation ==
    [][\A e \in Execs :
         Invoked(e) =>
             \A k \in Keys :
                 k # <<startId[e], StepName(last'[e].agent)>> =>
                     GetItem(table', k[1], k[2]) = GetItem(table, k[1], k[2])]_vars

\* C26: at most one invocation of an execution is in flight, and only while the
\* execution is in an agent state.
C26_OneInFlight ==
    \A e \in Execs :
        /\ inflight[e] <= 1
        /\ inflight[e] = 1 => pc[e] \in {AgentStep(i) : i \in Agents}

\* the first retry of agent 3 is in flight
C26_Witness ==
    \E e \in Execs : pc[e] = AgentStep(3) /\ retries[e] = 1 /\ inflight[e] = 1

\* the two kinds of notification, by subject, whoever publishes them
SuccessKind(m) == m.subject \in {"Campaign Success", "Campaign Plan Complete"}

FailureKind(m) == m.subject \in {"Campaign Failed", "Campaign Plan Failed"}

\* C27: a success notification is on the topic only when the last agent has
\* succeeded, a failure notification only when an agent terminally failed, and no
\* execution has published both kinds.
C27_NotificationKinds ==
    \A e \in Execs :
        LET msgs == {topic[e][k] : k \in 1..Len(topic[e])}
        IN  /\ (\E m \in msgs : SuccessKind(m)) =>
                  last[e].agent = NumAgents - 1 /\ last[e].ok
            /\ (\E m \in msgs : FailureKind(m)) => failedAt[e] >= 0
            /\ ~((\E m \in msgs : SuccessKind(m)) /\ (\E m \in msgs : FailureKind(m)))

\* C28: every started execution ends, and no task state is invoked more than
\* 1 + MaxAttempts times, so that the N states the machine passes through once each
\* make at most N * (1 + MaxAttempts) invocations.
C28_Terminates ==
    /\ \A e \in Execs : (pc[e] # "NotStarted") ~> (pc[e] \in {"End", "Closed"})
    /\ [](\A e \in Execs :
            /\ attempts[e] <= 1 + MaxAttempts
            /\ last[e].agent >= 0 =>
                  attempts[e] + (1 + MaxAttempts) * last[e].agent
                      <= NumAgents * (1 + MaxAttempts))

\* an execution ended after its last agent succeeded at the last invocation allowed
C28_Witness ==
    \E e \in Execs :
        /\ pc[e] = "End" /\ status[e] = "SUCCEEDED"
        /\ last[e].agent = NumAgents - 1 /\ last[e].ok /\ attempts[e] = 1 + MaxAttempts

\* C29: once agent i has terminally failed, the records of steps 0..i-1 the
\* execution wrote stay in the table with their content, and the step that publishes
\* the failure notification and ends the execution changes neither the table nor the
\* bucket.
C29_FailurePathKeepsStore ==
    /\ [](\A e \in Execs :
            Observed(e) /\ failedAt[e] >= 0 =>
                \A i \in 0..(failedAt[e] - 1) :
                    \E r \in table : r.step = StepName(i) /\ r.data = Content(e))
    /\ [][\A e \in Execs :
            pc[e] = "FailureNotify" /\ pc'[e] = "End" =>
                table' = table /\ assets' = assets]_vars

\* an execution ended after agent 3 failed, with the records of steps 0 to 2 in place
C29_Witness ==
    \E e \in Execs :
        /\ pc[e] = "End" /\ failedAt[e] = 3
        /\ \A i \in 0..2 : \E r \in table : r.step = StepName(i) /\ r.data = Content(e)

\* C30: while two executions started for the same campaign id are on record, the
\* records the agent about to run asks for are records its own execution wrote.
C30_ReadsOwnRecords ==
    \A e \in Execs :
        /\ Observed(e)
        /\ \E f \in Execs \ {e} : Observed(f) /\ startId[f] = startId[e]
        /\ Rank(pc[e]) \in 1..(NumAgents - 1)
        => \A st \in Reads(Rank(pc[e])) :
               \A r \in GetItem(table, data[e].campaign_id, st) : r.data = Content(e)

====
